---- MODULE Spec2Model ----
(***************************************************************************)
(* The graph model of the force-directed diagram component                 *)
(* (src/src/Graph/Force.js): data preprocessing, multiplicity metadata,    *)
(* adjacency index, breadth-first shortest path, highlight and filter,     *)
(* zoomTo, interactive edge creation, the simulators and the drag          *)
(* gesture, and the sweep flags and self-loop counts of the frame pass.    *)
(*                                                                         *)
(* JavaScript objects are records whose DOMAIN is the set of properties    *)
(* they own: a missing property is a missing field.  Arrays are sequences; *)
(* a JavaScript index v is the sequence index v + 1, and indexOf yields -1 *)
(* on a miss.  Sparse arrays (adjList, edgeTo, marker) are functions whose *)
(* DOMAIN is the set of assigned indexes.  Object identity is a reference  *)
(* [h, i]: the i-th element of the arrays of `data` (the object handed to  *)
(* the constructor) or of `copy` (the deep copies the constructor makes).  *)
(***************************************************************************)
EXTENDS Integers, Sequences, FiniteSets, TLC

\* ------------------------------------------------------------- inputs
\* The vertex ids of the input. "ab" + "a" and "a" + "ba" are the same string.
VertexIds == <<"a", "ab", "ba">>
EdgeIds == <<"e1", "e2", "e3", "e4">>
\* An id that is not in the input.
UnknownId == "zz"

MaxEdges == 2
MaxPreprocess == 2
MaxWalk == 5
MaxLinks == 2

Ids == {VertexIds[i] : i \in 1..Len(VertexIds)}
QueryIds == Ids \cup {UnknownId}

VARIABLES
  this,   \* the Force instance: its fields, and the objects they refer to
  pc,     \* "idle", or "pathTo" inside the loop of pathTo
  frame,  \* the locals of the running shortestPath call
  op      \* the last call and how it ended

\* The fields of `this`:
\*   data         this.data: the caller's {vertexes, edges}
\*   rawData      this.rawData: deepCopy(data), line 83
\*   copy         the objects of deepCopy(data.vertexes), deepCopy(data.edges)
\*   vertexes     this.vertexes: references
\*   edges        this.edges: references
\*   vertexesMap, adjList, edgeTo, marker
\*   simulation   this.simulation: how many simulators layout() has built;
\*                the last one built is the one this.simulation refers to
\*   simulators   the simulators built, each with its alpha, alphaTarget,
\*                timer (running) and nodes
\*   gesture      the vertex of the drag gesture in progress
\*   nodeEnter    the data bound to this.nodeEnter
\*   linkEnter    the data bound to this.linkEnter
\*   transform    the zoom transform of this.svg: d3.zoomTransform(svg.node())
\*   transition   the target of the running zoom transition of this.svg
\*   newLink      this.newLink: the provisional edge, with its datum
\*   line         the handlers bindLineWith attached, and its cb
\*   committed    the edges handed to addEdge
vars == <<this, pc, frame, op>>

\* ------------------------------------------------------------- objects
Has(o, f) == f \in DOMAIN o
Put(o, f, v) == [k \in DOMAIN o \cup {f} |-> IF k = f THEN v ELSE o[k]]
Range(s) == {s[k] : k \in 1..Len(s)}

Ref(h, i) == [h |-> h, i |-> i]
Deref(st, kind, r) == st[r.h][kind][r.i]
\* The objects of an array of references, in order.
Objects(st, kind, refs) == [k \in 1..Len(refs) |-> Deref(st, kind, refs[k])]
PosOf(refs, r) == CHOOSE k \in 1..Len(refs) : refs[k] = r

\* forEach over an array of references that assigns properties: the k-th
\* element becomes new[k].
UpdateAll(st, kind, refs, new) ==
  LET upd(h) ==
        [i \in 1..Len(st[h][kind]) |->
           IF Ref(h, i) \in Range(refs)
             THEN new[PosOf(refs, Ref(h, i))]
             ELSE st[h][kind][i]]
  IN  [st EXCEPT !.data[kind] = upd("data"), !.copy[kind] = upd("copy")]

indexOf(arr, x) ==
  IF \E i \in 1..Len(arr) : arr[i] = x
    THEN (CHOOSE i \in 1..Len(arr) :
            arr[i] = x /\ \A j \in 1..(i - 1) : arr[j] # x) - 1
    ELSE -1

\* ------------------------------------------------------------- preprocessData
\* x.state = x.state || 'normal'
DefaultState(o) == Put(o, "state", IF Has(o, "state") THEN o.state ELSE "normal")

\* this.adjList[from] = this.adjList[from] || {};
\* this.adjList[from][to] = this.adjList[from][to] || [];
\* this.adjList[from][to].push(id)
AdjPush(adj, from, to, id) ==
  LET row  == IF from \in DOMAIN adj THEN adj[from] ELSE <<>>
      cell == IF to \in DOMAIN row THEN row[to] ELSE <<>>
      row2 == [k \in DOMAIN row \cup {to} |->
                 IF k = to THEN Append(cell, id) ELSE row[k]]
  IN  [k \in DOMAIN adj \cup {from} |-> IF k = from THEN row2 ELSE adj[k]]

RECURSIVE BuildAdjList(_, _, _)
BuildAdjList(adj, es, vmap) ==
  IF es = <<>> THEN adj
  ELSE LET e == Head(es)
       IN  BuildAdjList(AdjPush(adj, indexOf(vmap, e._from), indexOf(vmap, e._to), e._id),
                        Tail(es), vmap)

\* The first loop of preprocessData (lines 121-124).
PreprocessVertexes(st) ==
  LET vs  == Objects(st, "vertexes", st.vertexes)
      st1 == UpdateAll(st, "vertexes", st.vertexes,
               [k \in 1..Len(vs) |-> DefaultState(vs[k])])
  IN  [st1 EXCEPT !.vertexesMap =
         @ \o [k \in 1..Len(st.vertexes) |-> Deref(st, "vertexes", st.vertexes[k])._id]]

\* The second loop of preprocessData (lines 125-134).
PreprocessEdges(st) ==
  LET es  == Objects(st, "edges", st.edges)
      st1 == UpdateAll(st, "edges", st.edges,
               [k \in 1..Len(es) |->
                  DefaultState(Put(Put(es[k], "source", es[k]._from),
                                   "target", es[k]._to))])
  IN  [st1 EXCEPT !.adjList =
         BuildAdjList(@, Objects(st, "edges", st.edges), st.vertexesMap)]

\* if (!edgeNumMap[key]): the counters start at 1, so a falsy entry is a
\* missing one.  undefined++ stores NaN, which every later read treats as
\* the missing entry (it is falsy, and NaN++ is NaN): it is left missing.
Truthy(m, k) == k \in DOMAIN m
Incr(m, k) == IF k \in DOMAIN m THEN Put(m, k, m[k] + 1) ELSE m

\* The first loop of setEdgeIndex (lines 175-187) on the edge objects es:
\* acc.edgeNumMap, acc.edgeDirection, and acc.index, the edgeIndex assigned
\* to each edge.  vertexNumMap is written and never read.
RECURSIVE CountEdges(_, _)
CountEdges(es, acc) ==
  IF es = <<>> THEN acc
  ELSE
    LET e    == Head(es)
        key  == e._from \o e._to
        rkey == e._to \o e._from
        num  == IF ~Truthy(acc.edgeNumMap, key)
                  THEN Put(Put(acc.edgeNumMap, rkey, 1), key, 1)
                  ELSE Incr(Incr(acc.edgeNumMap, key), rkey)
        dir  == IF ~Truthy(acc.edgeNumMap, key)
                  THEN Put(Put(acc.edgeDirection, rkey, e._from), key, e._from)
                  ELSE acc.edgeDirection
    IN  CountEdges(Tail(es),
                   [edgeNumMap |-> num, edgeDirection |-> dir,
                    index |-> Append(acc.index, num[key])])

setEdgeIndex(st) ==
  LET es  == Objects(st, "edges", st.edges)
      acc == CountEdges(es, [edgeNumMap |-> <<>>, edgeDirection |-> <<>>, index |-> <<>>])
  IN  UpdateAll(st, "edges", st.edges,
        [k \in 1..Len(es) |->
           LET e   == es[k]
               key == e._from \o e._to
           IN  Put(Put(Put(e, "edgeIndex", acc.index[k]),
                       "siblingNum", acc.edgeNumMap[key]),
                   "labelDirection", IF acc.edgeDirection[key] = e._from THEN 1 ELSE 0)])

\* The values of a pin (fx, fy): null, undefined, or a number.
Null == [null |-> TRUE]
Number(n) == [n |-> n]
\* x == null of JavaScript: the property is missing, undefined or null.
IsNull(o, f) == ~Has(o, f) \/ ~Has(o[f], "n")

\* simulation.nodes(nodes) gives the i-th node a position when it has none
\* (a spiral by index; here 10 * i on both axes).
InitializeNode(v, i) ==
  IF Has(v, "x") /\ Has(v, "y") THEN v ELSE Put(Put(v, "x", 10 * i), "y", 10 * i)

\* d3.forceSimulation(): alpha starts above alphaMin (here 2 steps above;
\* 0 is below alphaMin), alphaTarget at 0, the timer running.
forceSimulation(nodes) ==
  [alpha |-> 2, alphaTarget |-> 0, running |-> TRUE, nodes |-> nodes]

\* layout builds a new simulator over this.vertexes and this.edges and
\* stores it in this.simulation.  The simulator that was there is left as
\* it is.
layout(st) ==
  LET vs  == Objects(st, "vertexes", st.vertexes)
      st1 == UpdateAll(st, "vertexes", st.vertexes,
               [k \in 1..Len(vs) |-> InitializeNode(vs[k], k - 1)])
  IN  [st1 EXCEPT !.simulation = @ + 1,
                  !.simulators = Append(@, forceSimulation(st.vertexes))]

PreprocessData(st) == layout(setEdgeIndex(PreprocessEdges(PreprocessVertexes(st))))

\* ------------------------------------------------------------- construction
\* The ordered pairs the edges of an input join: a self-loop, the two
\* directions of one pair, a chain over the three vertices and its shortcut.
\* "ab" + "a" (the third pair) and "a" + "ba" (the fifth) are the same key.
EdgePairs ==
  {<<"a", "a">>, <<"a", "ab">>, <<"ab", "a">>, <<"ab", "ba">>, <<"a", "ba">>}

\* An input: the vertices of VertexIds and up to MaxEdges edges between them.
EdgeLists ==
  UNION {[1..n -> EdgePairs] : n \in 0..MaxEdges}

InputOf(el) ==
  [vertexes |-> [i \in 1..Len(VertexIds) |-> [_id |-> VertexIds[i]]],
   edges    |-> [i \in 1..Len(el) |->
                   [_id |-> EdgeIds[i], _from |-> el[i][1], _to |-> el[i][2]]]]

Undefined == [defined |-> FALSE]
TypeError == [error |-> "TypeError"]
Selection(refs) == [defined |-> TRUE, data |-> refs]
NoFrame == <<>>

\* Scales are counted in halves: 2 is the scale 1.  d3.zoomIdentity.
zoomIdentity == [k |-> 2, x |-> 0, y |-> 0]

\* The constructor (lines 61-102) on the input `input`.
Construct(input) ==
  [data        |-> input,
   rawData     |-> input,
   copy        |-> input,
   vertexes    |-> [i \in 1..Len(input.vertexes) |-> Ref("copy", i)],
   edges       |-> [i \in 1..Len(input.edges) |-> Ref("copy", i)],
   vertexesMap |-> <<>>,
   adjList     |-> <<>>,
   edgeTo      |-> <<>>,
   marker      |-> <<>>,
   simulation  |-> 0,
   simulators  |-> <<>>,
   gesture     |-> Undefined,
   nodeEnter   |-> Undefined,
   linkEnter   |-> Undefined,
   transform   |-> zoomIdentity,
   transition  |-> Undefined,
   newLink     |-> Undefined,
   line        |-> Undefined,
   committed   |-> <<>>]

Init ==
  /\ \E el \in EdgeLists : this = Construct(InputOf(el))
  /\ pc = "idle"
  /\ frame = NoFrame
  /\ op = [name |-> "constructor"]

\* Inputs for the frame pass: the vertices carry display names, which two
\* of them share, and there are self-loops at two vertices.
VertexNames == <<"n", "m", "n">>
TickPairs == {<<"a", "a">>, <<"ba", "ba">>, <<"a", "ab">>, <<"ab", "a">>}
TickLists == UNION {[1..n -> TickPairs] : n \in 0..MaxEdges}
Named(input) ==
  [input EXCEPT !.vertexes = [i \in 1..Len(@) |-> Put(@[i], "name", VertexNames[i])]]

TickInit ==
  /\ \E el \in TickLists : this = Construct(Named(InputOf(el)))
  /\ pc = "idle"
  /\ frame = NoFrame
  /\ op = [name |-> "constructor"]

\* ------------------------------------------------------------- operations
preprocessData ==
  /\ pc = "idle"
  /\ this.simulation < MaxPreprocess
  /\ this' = PreprocessData(this)
  /\ op' = [name |-> "preprocessData"]
  /\ UNCHANGED <<pc, frame>>

\* draw(): drawEdges binds this.edges, drawVertexes binds this.vertexes.
\* Both remove the elements drawn before, and the handlers on them.
Draw(st) ==
  [st EXCEPT !.linkEnter = Selection(st.edges), !.nodeEnter = Selection(st.vertexes),
             !.line = IF @.defined THEN [@ EXCEPT !.elements = FALSE] ELSE @]

draw ==
  /\ pc = "idle"
  /\ this' = Draw(this)
  /\ op' = [name |-> "draw"]
  /\ UNCHANGED <<pc, frame>>

\* The each() of highlightVertex / highlightEdge over the bound data.
Highlight(st, kind, refs, ids) ==
  LET ds == Objects(st, kind, refs)
  IN  UpdateAll(st, kind, refs,
        [k \in 1..Len(ds) |->
           Put(ds[k], "state", IF ds[k]._id \in ids THEN "highlight" ELSE "grey")])

\* this.nodeEnter is undefined until draw() has run.
highlightVertex(ids) ==
  /\ pc = "idle"
  /\ IF this.nodeEnter.defined
       THEN /\ this' = Highlight(this, "vertexes", this.nodeEnter.data, ids)
            /\ op' = [name |-> "highlightVertex", ids |-> ids, threw |-> FALSE]
       ELSE /\ op' = [name |-> "highlightVertex", ids |-> ids, threw |-> TRUE]
            /\ UNCHANGED this
  /\ UNCHANGED <<pc, frame>>

highlightEdge(ids) ==
  /\ pc = "idle"
  /\ IF this.linkEnter.defined
       THEN /\ this' = Highlight(this, "edges", this.linkEnter.data, ids)
            /\ op' = [name |-> "highlightEdge", ids |-> ids, threw |-> FALSE]
       ELSE /\ op' = [name |-> "highlightEdge", ids |-> ids, threw |-> TRUE]
            /\ UNCHANGED this
  /\ UNCHANGED <<pc, frame>>

\* ------------------------------------------------------------- filters
\* A filter argument: a function of the element (here of its _id), or a
\* value that is not a function.
Predicate(ids) == [callable |-> TRUE, ids |-> ids]
NotAFunction == [callable |-> FALSE]
Apply(filter, d) == d._id \in filter.ids

DataRefs(st, kind) == [i \in 1..Len(st.data[kind]) |-> Ref("data", i)]
\* let vertexes = isRaw ? this.data.vertexes : this.vertexes (and edges)
FilterInput(st, kind, isRaw) == IF isRaw THEN DataRefs(st, kind) ELSE st[kind]

\* filterVertex with the edge loop starting at the second input edge.
FilterVertexSetsSkipFirst(st, filter, isRaw) ==
  LET vs        == FilterInput(st, "vertexes", isRaw)
      es        == FilterInput(st, "edges", isRaw)
      filterIds == {Deref(st, "vertexes", r)._id :
                      r \in {x \in Range(vs) : Apply(filter, Deref(st, "vertexes", x))}}
      kept      == SelectSeq(IF es = <<>> THEN es ELSE Tail(es), LAMBDA r :
                     \/ Deref(st, "edges", r)._from \in filterIds
                     \/ Deref(st, "edges", r)._to \in filterIds)
      vertexIds == UNION {{Deref(st, "edges", r)._to, Deref(st, "edges", r)._from} :
                            r \in Range(kept)}
  IN  [st EXCEPT !.edges = kept,
                 !.vertexes = SelectSeq(vs, LAMBDA r : Deref(st, "vertexes", r)._id \in vertexIds)]

\* filterVertex keeping the vertices the filter accepts, not re-derived from
\* the surviving edges.
FilterVertexSetsKeepMatched(st, filter, isRaw) ==
  LET vs        == FilterInput(st, "vertexes", isRaw)
      es        == FilterInput(st, "edges", isRaw)
      filterIds == {Deref(st, "vertexes", r)._id :
                      r \in {x \in Range(vs) : Apply(filter, Deref(st, "vertexes", x))}}
  IN  [st EXCEPT !.edges = SelectSeq(es, LAMBDA r :
                     \/ Deref(st, "edges", r)._from \in filterIds
                     \/ Deref(st, "edges", r)._to \in filterIds),
                 !.vertexes = SelectSeq(vs, LAMBDA r : Deref(st, "vertexes", r)._id \in filterIds)]

\* Lines 1041-1075: the new this.edges and this.vertexes of filterVertex.
FilterVertexSets(st, filter, isRaw) ==
  LET vs        == FilterInput(st, "vertexes", isRaw)
      es        == FilterInput(st, "edges", isRaw)
      filterIds == {Deref(st, "vertexes", r)._id :
                      r \in {x \in Range(vs) : Apply(filter, Deref(st, "vertexes", x))}}
      kept      == SelectSeq(es, LAMBDA r :
                     \/ Deref(st, "edges", r)._from \in filterIds
                     \/ Deref(st, "edges", r)._to \in filterIds)
      vertexIds == UNION {{Deref(st, "edges", r)._to, Deref(st, "edges", r)._from} :
                            r \in Range(kept)}
  IN  [st EXCEPT !.edges = kept,
                 !.vertexes = SelectSeq(vs, LAMBDA r : Deref(st, "vertexes", r)._id \in vertexIds)]

\* Lines 1084-1108: the new this.edges and this.vertexes of filterEdge.
FilterEdgeSets(st, filter, isRaw) ==
  LET vs        == FilterInput(st, "vertexes", isRaw)
      es        == FilterInput(st, "edges", isRaw)
      kept      == SelectSeq(es, LAMBDA r : Apply(filter, Deref(st, "edges", r)))
      vertexIds == UNION {{Deref(st, "edges", r)._from, Deref(st, "edges", r)._to} :
                            r \in Range(kept)}
  IN  [st EXCEPT !.edges = kept,
                 !.vertexes = SelectSeq(vs, LAMBDA r : Deref(st, "vertexes", r)._id \in vertexIds)]

\* filterVertex with the type check made after the working sets are replaced.
FilterVertexLateCheck(st, filter, isRaw) ==
  IF ~filter.callable
    THEN [threw |-> TRUE, st |-> [st EXCEPT !.edges = <<>>, !.vertexes = <<>>]]
    ELSE [threw |-> FALSE, st |-> PreprocessData(FilterVertexSets(st, filter, isRaw))]

\* The whole of filterVertex: the type check, the new sets, preprocessData.
FilterVertex(st, filter, isRaw) ==
  IF ~filter.callable
    THEN [threw |-> TRUE, st |-> st]
    ELSE [threw |-> FALSE, st |-> PreprocessData(FilterVertexSets(st, filter, isRaw))]

FilterEdge(st, filter, isRaw) ==
  IF ~filter.callable
    THEN [threw |-> TRUE, st |-> st]
    ELSE [threw |-> FALSE, st |-> PreprocessData(FilterEdgeSets(st, filter, isRaw))]

\* The filters tried: one vertex, the other vertices; one edge, the other
\* edges; and a value that is not a function.
VertexFilters ==
  {Predicate({VertexIds[1]}), Predicate(Ids \ {VertexIds[1]}), NotAFunction}
EdgeFilters ==
  {Predicate({EdgeIds[1]}), Predicate(Range(EdgeIds) \ {EdgeIds[1]}), NotAFunction}

\* The call repeats the previous one, which returned.
Repeats(name, filter, isRaw) ==
  op.name = name /\ ~op.threw /\ op.filter = filter /\ op.isRaw = isRaw

filterVertex(filter, isRaw) ==
  /\ pc = "idle"
  /\ filter.callable => this.simulation < MaxPreprocess
  /\ LET r == FilterVertex(this, filter, isRaw)
     IN  /\ this' = r.st
         /\ op' = [name |-> "filterVertex", filter |-> filter, isRaw |-> isRaw,
                   threw |-> r.threw, again |-> Repeats("filterVertex", filter, isRaw)]
  /\ UNCHANGED <<pc, frame>>

filterEdge(filter, isRaw) ==
  /\ pc = "idle"
  /\ filter.callable => this.simulation < MaxPreprocess
  /\ LET r == FilterEdge(this, filter, isRaw)
     IN  /\ this' = r.st
         /\ op' = [name |-> "filterEdge", filter |-> filter, isRaw |-> isRaw,
                   threw |-> r.threw, again |-> Repeats("filterEdge", filter, isRaw)]
  /\ UNCHANGED <<pc, frame>>

ResetData(st) ==
  [st EXCEPT !.vertexes = DataRefs(st, "vertexes"), !.edges = DataRefs(st, "edges")]

resetData ==
  /\ pc = "idle"
  /\ this' = ResetData(this)
  /\ op' = [name |-> "resetData"]
  /\ UNCHANGED <<pc, frame>>

\* ------------------------------------------------------------- zoom
\* this.zoom.scaleExtent(): the default [0.5, 2], in halves.
scaleExtent == <<1, 4>>
\* this.el.getBoundingClientRect()
containerRect == [width |-> 24, height |-> 12]

\* transform.translate(x, y) and transform.scale(k) of d3-zoom.
Translate(t, x, y) == [k |-> t.k, x |-> t.x + (t.k * x) \div 2, y |-> t.y + (t.k * y) \div 2]
Scale(t, k) == [k |-> (t.k * k) \div 2, x |-> t.x, y |-> t.y]

\* transformTo: a transition of this.svg towards `transform` starts, in
\* place of the one that was running.
TransformTo(st, transform) == [st EXCEPT !.transition = [defined |-> TRUE, target |-> transform]]

\* zoomTo with nextK taken as requested, not limited to scaleExtent.
ZoomToUnclamped(st, scale) ==
  LET curK == st.transform.k
  IN  IF \/ (scale - curK > 0 /\ curK = scaleExtent[2])
         \/ (scale - curK < 0 /\ curK = scaleExtent[1])
        THEN st
        ELSE LET nextK   == scale
                 centerX == containerRect.width \div 2
                 centerY == containerRect.height \div 2
                 nextX   == centerX - ((centerX - st.transform.x) \div curK) * nextK
                 nextY   == centerY - ((centerY - st.transform.y) \div curK) * nextK
             IN  TransformTo(st, Scale(Translate(zoomIdentity, nextX, nextY), nextK))

\* zoomTo(scale), lines 929-965.  The divisions are exact on the transforms
\* the model reaches (centerX - x and centerY - y are multiples of k).
ZoomTo(st, scale) ==
  LET curK == st.transform.k
  IN  IF \/ (scale - curK > 0 /\ curK = scaleExtent[2])
         \/ (scale - curK < 0 /\ curK = scaleExtent[1])
        THEN st
        ELSE LET nextK   == IF scale < scaleExtent[1] THEN scaleExtent[1]
                            ELSE IF scale > scaleExtent[2] THEN scaleExtent[2]
                            ELSE scale
                 centerX == containerRect.width \div 2
                 centerY == containerRect.height \div 2
                 nextX   == centerX - ((centerX - st.transform.x) \div curK) * nextK
                 nextY   == centerY - ((centerY - st.transform.y) \div curK) * nextK
             IN  TransformTo(st, Scale(Translate(zoomIdentity, nextX, nextY), nextK))

zoomTo(scale) ==
  /\ pc = "idle"
  /\ this' = ZoomTo(this, scale)
  /\ op' = [name |-> "zoomTo", scale |-> scale]
  /\ UNCHANGED <<pc, frame>>

transformTo(transform) ==
  /\ pc = "idle"
  /\ this' = TransformTo(this, transform)
  /\ op' = [name |-> "transformTo"]
  /\ UNCHANGED <<pc, frame>>

\* The view centre (in model coordinates) a transform shows.
Centre(t) ==
  <<(containerRect.width \div 2 - t.x) \div t.k, (containerRect.height \div 2 - t.y) \div t.k>>

\* A frame of the transition (duration 300): the last frame sets the target;
\* an earlier one, when the target keeps the view centre, a scale between
\* the current one and the target with the centre unmoved.
transitionFrame ==
  /\ pc = "idle"
  /\ this.transition.defined
  /\ LET t == this.transform
         b == this.transition.target
         k == IF t.k < b.k THEN t.k + 1 ELSE t.k - 1
     IN  \/ this' = [this EXCEPT !.transform = b, !.transition = Undefined]
         \/ /\ Centre(t) = Centre(b)
            /\ k # b.k /\ t.k # b.k
            /\ this' = [this EXCEPT !.transform =
                          [k |-> k,
                           x |-> containerRect.width \div 2 - Centre(t)[1] * k,
                           y |-> containerRect.height \div 2 - Centre(t)[2] * k]]
  /\ op' = [name |-> "transition"]
  /\ UNCHANGED <<pc, frame>>

\* ------------------------------------------------------------- simulation and drag
\* One step of a simulator's timer: alpha moves towards alphaTarget.
StepAlpha(sim) ==
  IF sim.alpha > sim.alphaTarget THEN sim.alpha - 1
  ELSE IF sim.alpha < sim.alphaTarget THEN sim.alpha + 1
  ELSE sim.alpha

\* The step moves the nodes; a pinned node is put at (fx, fy).  The motion
\* of the other nodes is the simulator's numerics and is left out.
StepNode(v) ==
  LET v1 == IF IsNull(v, "fx") THEN v ELSE Put(v, "x", v.fx.n)
  IN  IF IsNull(v1, "fy") THEN v1 ELSE Put(v1, "y", v1.fy.n)

\* d.source.name: forceLink has replaced d.source by the vertex object with
\* that id; a vertex without a name gives the key "undefined".
SourceName(st, d) ==
  LET vs == st.data.vertexes
      k  == CHOOSE i \in 1..Len(vs) : vs[i]._id = d.source
  IN  IF Has(vs[k], "name") THEN vs[k].name ELSE "undefined"

\* The sweep flag with no inversion for labelDirection.
SweepFlagNoInversion(d) ==
  IF Has(d, "siblingNum") /\ 2 * d.edgeIndex > d.siblingNum + 1 THEN 1 ELSE 0

\* Lines 218, 230-233: middleIdx = (siblingNum + 1) / 2;
\* sweepFlag = edgeIndex > middleIdx ? 1 : 0, and 1 - sweepFlag when
\* labelDirection is truthy.
SweepFlag(d) ==
  LET sweepFlag == IF Has(d, "siblingNum") /\ 2 * d.edgeIndex > d.siblingNum + 1
                     THEN 1 ELSE 0
  IN  IF Has(d, "labelDirection") /\ d.labelDirection # 0 THEN 1 - sweepFlag ELSE sweepFlag

\* The callback of lines 215-291 on the drawn edges ds in order, with the
\* selfMap so far: for each edge the sweep flags of its path and of its
\* reverse path and, for a self-loop, the count that gives h and w.
RECURSIVE EdgePaths(_, _, _, _)
EdgePaths(st, ds, selfMap, out) ==
  IF ds = <<>> THEN out
  ELSE
    LET d     == Head(ds)
        self  == d.source = d.target
        key   == SourceName(st, d)
        count == IF key \in DOMAIN selfMap THEN selfMap[key] + 1 ELSE 1
        path  == [_id |-> d._id, sweepFlag |-> SweepFlag(d),
                  reverse |-> 1 - SweepFlag(d), self |-> self,
                  count |-> IF self THEN count ELSE 0,
                  h |-> IF self THEN count * 100 ELSE 0,
                  w |-> IF self THEN count * 10 ELSE 0]
    IN  EdgePaths(st, Tail(ds), IF self THEN Put(selfMap, key, count) ELSE selfMap,
                  Append(out, path))

\* onTick: var selfMap = {} and the pass over the '.edge-path' elements.
\* d.target.x throws on a drawn edge that no preprocessData has seen.
OnTick(st) ==
  LET ds == IF st.linkEnter.defined THEN Objects(st, "edges", st.linkEnter.data) ELSE <<>>
  IN  IF \E k \in 1..Len(ds) : ~Has(ds[k], "target")
        THEN TypeError
        ELSE EdgePaths(st, ds, <<>>, <<>>)

\* A step of the i-th simulator built: the nodes move, 'tick' is
\* dispatched (onTick), and below alphaMin the timer stops and 'end' is
\* dispatched (onEndRender).
tick(i) ==
  /\ pc = "idle"
  /\ i \in 1..Len(this.simulators)
  /\ this.simulators[i].running
  /\ LET sim   == this.simulators[i]
         alpha == StepAlpha(sim)
         vs    == Objects(this, "vertexes", sim.nodes)
         st1   == UpdateAll(this, "vertexes", sim.nodes,
                    [k \in 1..Len(vs) |-> StepNode(vs[k])])
     IN  /\ this' = [st1 EXCEPT !.simulators[i].alpha = alpha,
                                !.simulators[i].running = alpha > 0]
         /\ op' = [name |-> "tick", simulation |-> i, end |-> alpha = 0,
                   paths |-> OnTick(st1)]
  /\ UNCHANGED <<pc, frame>>

\* simulation.alphaTarget(target) on the simulator in this.simulation.
AlphaTarget(st, target) == [st EXCEPT !.simulators[st.simulation].alphaTarget = target]
\* simulation.restart()
Restart(st) == [st EXCEPT !.simulators[st.simulation].running = TRUE]

SetPin(st, r, fx, fy) ==
  LET d == Deref(st, "vertexes", r)
  IN  UpdateAll(st, "vertexes", <<r>>, <<Put(Put(d, "fx", fx), "fy", fy)>>)

\* onDragStart(d) with d3.event.active = 0 (one pointer).  The raised
\* alphaTarget 0.3 is 1 here.
OnDragStart(st, r) ==
  LET d == Deref(st, "vertexes", r)
  IN  SetPin(Restart(AlphaTarget(st, 1)), r,
             IF Has(d, "x") THEN Number(d.x) ELSE [undefined |-> TRUE],
             IF Has(d, "y") THEN Number(d.y) ELSE [undefined |-> TRUE])

\* onDrag(d): the pin follows the pointer (d3.event.x, d3.event.y).
OnDrag(st, r, event) == SetPin(st, r, Number(event.x), Number(event.y))

\* onDragEnd(d) with d3.event.active = 0.
OnDragEnd(st, r) == SetPin(AlphaTarget(st, 0), r, Null, Null)

\* A drag starts on the k-th drawn vertex.  Without a simulator
\* this.simulation.alphaTarget throws.
dragStart(k) ==
  /\ pc = "idle"
  /\ this.nodeEnter.defined
  /\ k \in 1..Len(this.nodeEnter.data)
  /\ ~this.gesture.defined
  /\ IF this.simulation = 0
       THEN /\ op' = [name |-> "dragStart", threw |-> TRUE]
            /\ UNCHANGED this
       ELSE /\ this' = [OnDragStart(this, this.nodeEnter.data[k])
                          EXCEPT !.gesture = [defined |-> TRUE, d |-> this.nodeEnter.data[k],
                                              simulation |-> this.simulation]]
            /\ op' = [name |-> "dragStart", threw |-> FALSE]
  /\ UNCHANGED <<pc, frame>>

drag(event) ==
  /\ pc = "idle"
  /\ this.gesture.defined
  /\ this' = OnDrag(this, this.gesture.d, event)
  /\ op' = [name |-> "drag"]
  /\ UNCHANGED <<pc, frame>>

dragEnd ==
  /\ pc = "idle"
  /\ this.gesture.defined
  /\ this' = [OnDragEnd(this, this.gesture.d) EXCEPT !.gesture = Undefined]
  /\ op' = [name |-> "dragEnd", d |-> this.gesture.d, simulation |-> this.gesture.simulation]
  /\ UNCHANGED <<pc, frame>>

\* ------------------------------------------------------------- edge creation
\* addNewLink(d): this.newLink = a path with datum {_from: d._id, source: d}.
AddNewLink(st, d) ==
  [st EXCEPT !.newLink = [defined |-> TRUE, datum |-> [_from |-> d._id]]]

\* removeNewLink(): the path is removed, this.newLink = null.
RemoveNewLink(st) == [st EXCEPT !.newLink = Undefined]

\* this.addEdge(from, to): the new edge is committed.
addEdge(st, from, to) ==
  [st EXCEPT !.committed = Append(@, [_from |-> from, _to |-> to])]

\* A handler's outcome: the instance, and the calls of cb with their
\* argument lists.
Outcome(st, calls) == [st |-> st, cb |-> calls]

\* appendNewLink(d, cb): cb && cb().
AppendNewLink(st, d, cb) ==
  LET to   == d._id
      from == st.newLink.datum._from
  IN  Outcome(RemoveNewLink(addEdge(st, from, to)),
              IF cb THEN <<<<>>>> ELSE <<>>)

\* mouseup.line on this.$el (lines 1202-1206).
MouseupEl(st) ==
  IF st.newLink.defined THEN Outcome(RemoveNewLink(st), <<>>) ELSE Outcome(st, <<>>)

\* mouseup.line on a .vertex element (lines 1151-1156): stopPropagation.
MouseupVertex(st, d) ==
  IF st.newLink.defined THEN AppendNewLink(st, d, st.line.cb) ELSE Outcome(st, <<>>)

\* mouseup.line on the rect of a vertex (lines 1172-1182): stopPropagation.
MouseupRect(st, d) ==
  IF st.newLink.defined
    THEN IF st.newLink.datum._from = d._id
           THEN Outcome(RemoveNewLink(st), <<>>)
           ELSE AppendNewLink(st, d, st.line.cb)
    ELSE Outcome(st, <<>>)

\* mouseup.line on an edge (lines 1192-1196), then on this.$el.
MouseupEdge(st) ==
  MouseupEl(IF st.newLink.defined THEN RemoveNewLink(st) ELSE st)

\* bindLineWith(cb): throws when this.nodeEnter is undefined.
bindLineWith(cb) ==
  /\ pc = "idle"
  /\ IF this.nodeEnter.defined
       THEN /\ this' = [this EXCEPT !.line = [defined |-> TRUE, elements |-> TRUE, cb |-> cb]]
            /\ op' = [name |-> "bindLineWith", threw |-> FALSE]
       ELSE /\ op' = [name |-> "bindLineWith", threw |-> TRUE]
            /\ UNCHANGED this
  /\ UNCHANGED <<pc, frame>>

\* The handlers of the drawn vertices and edges are those of bindLineWith.
OnElements == this.line.defined /\ this.line.elements

\* The provisional edge's source before a release, or "none".
NewLinkFrom == IF this.newLink.defined THEN this.newLink.datum._from ELSE "none"

\* A press on the rect of the k-th drawn vertex.
mousedownRect(k) ==
  /\ pc = "idle"
  /\ OnElements
  /\ k \in 1..Len(this.nodeEnter.data)
  /\ Len(this.committed) < MaxLinks
  /\ this' = AddNewLink(this, Deref(this, "vertexes", this.nodeEnter.data[k]))
  /\ op' = [name |-> "mousedown", id |-> Deref(this, "vertexes", this.nodeEnter.data[k])._id]
  /\ UNCHANGED <<pc, frame>>

Released(on, id, r) ==
  /\ this' = r.st
  /\ op' = [name |-> "mouseup", on |-> on, id |-> id, from |-> NewLinkFrom, cb |-> r.cb,
            given |-> this.line.cb]
  /\ UNCHANGED <<pc, frame>>

\* A release on the k-th drawn vertex, off its rect.  Without handlers on
\* the element the event reaches this.$el only.
mouseupVertex(k) ==
  /\ pc = "idle"
  /\ this.line.defined
  /\ this.nodeEnter.defined
  /\ k \in 1..Len(this.nodeEnter.data)
  /\ LET d == Deref(this, "vertexes", this.nodeEnter.data[k])
     IN  Released("vertex", d._id,
                  IF OnElements THEN MouseupVertex(this, d) ELSE MouseupEl(this))

\* A release on the rect of the k-th drawn vertex.
mouseupRect(k) ==
  /\ pc = "idle"
  /\ OnElements
  /\ k \in 1..Len(this.nodeEnter.data)
  /\ LET d == Deref(this, "vertexes", this.nodeEnter.data[k])
     IN  Released("rect", d._id, MouseupRect(this, d))

\* A release on the k-th drawn edge.
mouseupEdge(k) ==
  /\ pc = "idle"
  /\ this.line.defined
  /\ this.linkEnter.defined
  /\ k \in 1..Len(this.linkEnter.data)
  /\ Released("edge", Deref(this, "edges", this.linkEnter.data[k])._id,
              IF OnElements THEN MouseupEdge(this) ELSE MouseupEl(this))

\* A release on the empty canvas.
mouseupCanvas ==
  /\ pc = "idle"
  /\ this.line.defined
  /\ Released("canvas", "none", MouseupEl(this))

\* ------------------------------------------------------------- shortest path
\* Object.keys of a row of adjList: the array indexes ascending, then the
\* other keys (-1).
RECURSIVE Ascending(_)
Ascending(S) ==
  IF S = {} THEN <<>>
  ELSE LET m == CHOOSE x \in S : \A y \in S : x <= y
       IN  <<m>> \o Ascending(S \ {m})
Keys(row) ==
  Ascending({k \in DOMAIN row : k >= 0}) \o Ascending({k \in DOMAIN row : k < 0})

IsMarked(m, i) == i \in DOMAIN m /\ m[i]

\* The forEach of lines 1253-1260 over the keys of adjList[item].
RECURSIVE VisitKeys(_, _, _)
VisitKeys(keys, item, s) ==
  IF keys = <<>> THEN s
  ELSE LET i == Head(keys)
       IN  VisitKeys(Tail(keys), item,
             IF ~IsMarked(s.marker, i)
               THEN [marker |-> Put(s.marker, i, TRUE),
                     edgeTo |-> Put(s.edgeTo, i, item),
                     queue  |-> Append(s.queue, i)]
               ELSE s)

\* The while loop of lines 1246-1261.
RECURSIVE BfsLoop(_, _)
BfsLoop(adj, s) ==
  IF s.queue = <<>> THEN s
  ELSE LET item == Head(s.queue)
           rest == [s EXCEPT !.queue = Tail(@)]
       IN  IF item \notin DOMAIN adj
             THEN BfsLoop(adj, rest)
             ELSE BfsLoop(adj, VisitKeys(Keys(adj[item]), item, rest))

\* for (let i in this.vertexesMap) this.marker[i] = false
ClearMarker(m, vmap) ==
  [k \in DOMAIN m \cup (0..(Len(vmap) - 1)) |->
     IF k \in 0..(Len(vmap) - 1) THEN FALSE ELSE m[k]]

\* bfs(vertexNum): the marker and edgeTo it leaves behind.
bfs(adj, vmap, m, et, vertexNum) ==
  BfsLoop(adj, [marker |-> Put(ClearMarker(m, vmap), vertexNum, TRUE),
                edgeTo |-> et,
                queue  |-> <<vertexNum>>])

\* while (to !== from && this.edgeTo[to] !== undefined)
PathToContinues(et, from, to) == to # from /\ to \in DOMAIN et

At(arr, v) == IF v + 1 \in 1..Len(arr) THEN arr[v + 1] ELSE "undefined"

\* Lines 1219-1234: what shortestPath makes of the path pathTo returned.
\* adjList[v][path[i - 1]][0] throws when adjList[v] or its entry is missing.
PathResult(adj, vmap, path, targetId) ==
  IF Len(path) <= 1
    THEN [vertexIds |-> <<targetId>>, edgeIds |-> <<>>]
  ELSE IF \E i \in 2..Len(path) :
            ~(path[i] \in DOMAIN adj /\ path[i - 1] \in DOMAIN adj[path[i]])
    THEN TypeError
  ELSE [vertexIds |-> [i \in 1..Len(path) |-> At(vmap, path[i])],
        edgeIds   |-> [i \in 1..(Len(path) - 1) |-> adj[path[i + 1]][path[i]][1]]]

\* shortestPath up to the first test of pathTo's loop.
shortestPath(source, target) ==
  /\ pc = "idle"
  /\ LET from == indexOf(this.vertexesMap, source)
         to   == indexOf(this.vertexesMap, target)
         b    == bfs(this.adjList, this.vertexesMap, this.marker, this.edgeTo, from)
     IN  /\ this' = [this EXCEPT !.marker = b.marker, !.edgeTo = b.edgeTo]
         /\ frame' = [source |-> source, target |-> target,
                      from |-> from, to |-> to, path |-> <<>>]
  /\ pc' = "pathTo"
  /\ UNCHANGED op

\* One turn of pathTo's loop: path.push(to); to = this.edgeTo[to].
pathToStep ==
  /\ pc = "pathTo"
  /\ PathToContinues(this.edgeTo, frame.from, frame.to)
  /\ Len(frame.path) < MaxWalk
  /\ frame' = [frame EXCEPT !.path = Append(@, frame.to), !.to = this.edgeTo[frame.to]]
  /\ UNCHANGED <<this, pc, op>>

\* The loop ends: path.push(from), and shortestPath builds its result.
pathToReturn ==
  /\ pc = "pathTo"
  /\ ~PathToContinues(this.edgeTo, frame.from, frame.to)
  /\ LET r == PathResult(this.adjList, this.vertexesMap,
                         Append(frame.path, frame.from), frame.target)
     IN  op' = [name |-> "shortestPath", source |-> frame.source,
                target |-> frame.target, result |-> r]
  /\ pc' = "idle"
  /\ frame' = NoFrame
  /\ UNCHANGED this

\* ------------------------------------------------------------- specifications
HighlightVertexSets == {{VertexIds[1]}}
HighlightEdgeSets == {{EdgeIds[1]}}

\* Index construction and path queries.
PathNext ==
  \/ preprocessData
  \/ \E s \in QueryIds, t \in QueryIds : shortestPath(s, t)
  \/ pathToStep
  \/ pathToReturn

\* Index construction, filters and reset.
FilterNext ==
  \/ preprocessData
  \/ resetData
  \/ \E f \in VertexFilters, isRaw \in BOOLEAN : filterVertex(f, isRaw)
  \/ \E f \in EdgeFilters, isRaw \in BOOLEAN : filterEdge(f, isRaw)

\* Drawing, highlighting, and the calls that replace the working sets.
HighlightNext ==
  \/ preprocessData
  \/ draw
  \/ resetData
  \/ \E isRaw \in BOOLEAN : filterVertex(Predicate({VertexIds[1]}), isRaw)
  \/ \E ids \in HighlightVertexSets : highlightVertex(ids)
  \/ \E ids \in HighlightEdgeSets : highlightEdge(ids)

\* The scales asked of zoomTo, in halves: 0 and 5, 6 are outside scaleExtent.
Scales == 0..6
\* The transforms handed to transformTo by a caller: a pan, and a scale
\* above scaleExtent (zoom.transform does not limit the scale).
Transforms == {[k |-> 2, x |-> 12, y |-> 6], [k |-> 6, x |-> 0, y |-> 0]}

ZoomNext ==
  \/ \E scale \in Scales : zoomTo(scale)
  \/ \E t \in Transforms : transformTo(t)
  \/ transitionFrame

\* Interactive edge creation.
LineNext ==
  \/ draw
  \/ \E cb \in BOOLEAN : bindLineWith(cb)
  \/ \E k \in 1..Len(VertexIds) : mousedownRect(k)
  \/ \E k \in 1..Len(VertexIds) : mouseupVertex(k)
  \/ \E k \in 1..Len(VertexIds) : mouseupRect(k)
  \/ \E k \in 1..MaxEdges : mouseupEdge(k)
  \/ mouseupCanvas

\* The pointer positions of a drag, and the drawn vertices dragged.
DragEvents == {[x |-> 7, y |-> 9]}
Dragged == {1, 2}

\* Layout, relayout, the simulators' timers and the drag gesture.
SimNext ==
  \/ preprocessData
  \/ draw
  \/ filterVertex(Predicate({VertexIds[1]}), FALSE)
  \/ \E i \in 1..MaxPreprocess : tick(i)
  \/ \E k \in Dragged : dragStart(k)
  \/ \E event \in DragEvents : drag(event)
  \/ dragEnd

\* Layout, drawing and the frame pass.
TickNext ==
  \/ preprocessData
  \/ draw
  \/ \E i \in 1..MaxPreprocess : tick(i)

Next ==
  \/ SimNext
  \/ LineNext
  \/ ZoomNext
  \/ PathNext
  \/ FilterNext
  \/ \E ids \in HighlightVertexSets : highlightVertex(ids)
  \/ \E ids \in HighlightEdgeSets : highlightEdge(ids)

Spec == Init /\ [][Next]_vars
PathSpec == Init /\ [][PathNext]_vars
FilterSpec == Init /\ [][FilterNext]_vars
HighlightSpec == Init /\ [][HighlightNext]_vars
ZoomSpec == Init /\ [][ZoomNext]_vars
LineSpec == Init /\ [][LineNext]_vars
SimSpec == Init /\ [][SimNext]_vars
TickSpec == TickInit /\ [][TickNext]_vars

\* ------------------------------------------------------------- properties
WorkingVertexes == Objects(this, "vertexes", this.vertexes)
WorkingEdges == Objects(this, "edges", this.edges)

\* The last call returned (it did not throw) and was one of `names`.
Returned(names) == op.name \in names /\ (Has(op, "threw") => ~op.threw)

\* The working edges joining the same unordered pair as the k-th one.
Siblings(es, k) ==
  {j \in 1..Len(es) : {es[j]._from, es[j]._to} = {es[k]._from, es[k]._to}}

\* C1: after preprocessData (alone, or at the end of a filter) the k edges of
\* every unordered vertex pair, self-loops included, carry the edgeIndex
\* values 1..k in encounter order and siblingNum = k; the edges of another
\* pair do not count.
C1_Multiplicity ==
  Returned({"preprocessData", "filterVertex", "filterEdge"}) =>
    \A k \in 1..Len(WorkingEdges) :
      /\ WorkingEdges[k].edgeIndex =
           Cardinality({j \in Siblings(WorkingEdges, k) : j <= k})
      /\ WorkingEdges[k].siblingNum = Cardinality(Siblings(WorkingEdges, k))

\* The vertices n hops after s along the working edges.
RECURSIVE Hops(_, _)
Hops(s, n) ==
  IF n = 0 THEN {s}
  ELSE {WorkingEdges[k]._to :
          k \in {j \in 1..Len(WorkingEdges) : WorkingEdges[j]._from \in Hops(s, n - 1)}}

WorkingIds == {WorkingVertexes[k]._id : k \in 1..Len(WorkingVertexes)}
\* t is reached from s by a directed path of at least one hop.
Reachable(s, t) == \E n \in 1..Len(WorkingVertexes) : t \in Hops(s, n)
MinHops(s, t) ==
  CHOOSE n \in 0..Len(WorkingVertexes) :
    t \in Hops(s, n) /\ \A m \in 0..(n - 1) : t \notin Hops(s, m)

\* A shortestPath call has returned, on an index built from the working sets.
PathAnswered ==
  /\ pc = "idle"
  /\ op.name = "shortestPath"
  /\ this.simulation >= 1

IsPath(r) == Has(r, "vertexIds")
Fallback(t) == [vertexIds |-> <<t>>, edgeIds |-> <<>>]

\* C2: for t reachable from s, shortestPath(s, t) returns vertexIds running
\* from s (first) to t (last) and one edge id per hop.
C2_SourceToTarget ==
  (PathAnswered /\ Reachable(op.source, op.target)) =>
    /\ IsPath(op.result)
    /\ op.result.vertexIds[1] = op.source
    /\ op.result.vertexIds[Len(op.result.vertexIds)] = op.target
    /\ Len(op.result.edgeIds) = Len(op.result.vertexIds) - 1

\* C3: on a freshly preprocessed graph, for t reachable from s, every
\* returned edge is a working edge pointing from the vertex returned before
\* it to the vertex returned after it, and the hop count is minimal.
C3_RealShortestPath ==
  (PathAnswered /\ this.simulation = 1 /\ Reachable(op.source, op.target)) =>
    /\ IsPath(op.result)
    /\ Len(op.result.edgeIds) = Len(op.result.vertexIds) - 1
    /\ \A i \in 1..Len(op.result.edgeIds) :
         \E k \in 1..Len(WorkingEdges) :
           /\ WorkingEdges[k]._id = op.result.edgeIds[i]
           /\ WorkingEdges[k]._from = op.result.vertexIds[i]
           /\ WorkingEdges[k]._to = op.result.vertexIds[i + 1]
    /\ Len(op.result.edgeIds) = MinHops(op.source, op.target)

\* C4: when the target is not reachable, or is the source, or an id is
\* unknown, shortestPath returns {vertexIds: [target], edgeIds: []},
\* whatever calls came before.
C4_FallbackResult ==
  (/\ pc = "idle"
   /\ op.name = "shortestPath"
   /\ \/ ~Reachable(op.source, op.target)
      \/ op.source = op.target
      \/ op.source \notin WorkingIds
      \/ op.target \notin WorkingIds)
    => op.result = Fallback(op.target)

\* pathTo run to its end on the predecessor map et.
RECURSIVE WalkPath(_, _, _, _)
WalkPath(et, from, to, path) ==
  IF PathToContinues(et, from, to)
    THEN WalkPath(et, from, et[to], Append(path, to))
    ELSE Append(path, from)

\* shortestPath(s, t) on newly allocated marker and edgeTo.
FreshShortestPath(s, t) ==
  LET from == indexOf(this.vertexesMap, s)
      to   == indexOf(this.vertexesMap, t)
      b    == bfs(this.adjList, this.vertexesMap, <<>>, <<>>, from)
  IN  PathResult(this.adjList, this.vertexesMap, WalkPath(b.edgeTo, from, to, <<>>), t)

\* C5: the result of shortestPath(s, t) is the one a call on fresh marker and
\* predecessor storage gives, whatever calls came before.
C5_Stateless ==
  (pc = "idle" /\ op.name = "shortestPath") =>
    op.result = FreshShortestPath(op.source, op.target)

\* C6: the walk of pathTo takes at most as many turns as the graph has
\* vertices.
C6_PathToBounded ==
  pc = "pathTo" => Len(frame.path) <= Len(this.data.vertexes)

Working(st) ==
  [vertexRefs |-> st.vertexes, vertexes |-> Objects(st, "vertexes", st.vertexes),
   edgeRefs   |-> st.edges,    edges    |-> Objects(st, "edges", st.edges)]

\* C7: a filterVertex(p, isRaw) that repeats the call before it leaves the
\* working vertex and edge sets as that call left them.
C7_FilterVertexIdempotent ==
  [][(op'.name = "filterVertex" /\ ~op'.threw /\ op'.again)
       => Working(this') = Working(this)]_vars

\* A repeated non-raw filterVertex has run on a result that kept some edges
\* and dropped others.
C7_Witness ==
  /\ op.name = "filterVertex" /\ ~op.threw /\ op.again /\ ~op.isRaw
  /\ this.edges # <<>>
  /\ Len(this.edges) < Len(this.data.edges)

\* C8: resetData restores working sets structurally equal to the original
\* input, of which this.rawData is the untouched deep copy.
C8_ResetRestoresInput ==
  op.name = "resetData" =>
    /\ WorkingVertexes = this.rawData.vertexes
    /\ WorkingEdges = this.rawData.edges

\* C9: a filter call whose first argument is not a function throws with
\* every field of the instance as it was.
C9_ThrowTouchesNothing ==
  [][(op'.name \in {"filterVertex", "filterEdge"} /\ op'.threw) => this' = this]_vars

\* A filter call has thrown on an instance whose index was built.
C9_Witness ==
  /\ op.name \in {"filterVertex", "filterEdge"} /\ op.threw
  /\ this.vertexesMap # <<>>
  /\ this.edges # <<>>

\* The input sets of a filter call made in the state st.
Intact(st, vs, es) ==
  \A r \in Range(es) :
    {Deref(st, "edges", r)._from, Deref(st, "edges", r)._to}
      \subseteq {Deref(st, "vertexes", v)._id : v \in Range(vs)}
\* An endpoint of the edge e is a vertex of vs that satisfies p.
TouchesMatch(st, vs, p, e) ==
  \E v \in Range(vs) :
    /\ Deref(st, "vertexes", v)._id \in {e._from, e._to}
    /\ Apply(p, Deref(st, "vertexes", v))

\* C10: filterVertex(p, isRaw) keeps exactly the input edges with an endpoint
\* satisfying p, and exactly the input vertices such an edge touches.
C10_FilterVertexResult ==
  [][(op'.name = "filterVertex" /\ ~op'.threw) =>
       LET vs   == FilterInput(this, "vertexes", op'.isRaw)
           es   == FilterInput(this, "edges", op'.isRaw)
           kept == SelectSeq(es, LAMBDA r :
                     TouchesMatch(this, vs, op'.filter, Deref(this, "edges", r)))
       IN  Intact(this, vs, es) =>
             /\ this'.edges = kept
             /\ this'.vertexes =
                  SelectSeq(vs, LAMBDA v :
                    \E r \in Range(kept) :
                      Deref(this, "vertexes", v)._id
                        \in {Deref(this, "edges", r)._from, Deref(this, "edges", r)._to})]_vars

\* A raw filterVertex has kept a vertex that does not satisfy the filter and
\* dropped one that does.
C10_Witness ==
  /\ op.name = "filterVertex" /\ ~op.threw /\ op.isRaw
  /\ \E id \in WorkingIds : id \notin op.filter.ids
  /\ \E i \in 1..Len(this.data.vertexes) :
       /\ this.data.vertexes[i]._id \in op.filter.ids
       /\ this.data.vertexes[i]._id \notin WorkingIds

\* The state tag highlightVertex(ids) / highlightEdge(ids) gives an element.
Tagged(d, ids) == d.state = (IF d._id \in ids THEN "highlight" ELSE "grey")

\* C11: after highlightVertex(ids) every vertex of the working vertex set is
\* tagged 'highlight' if its id is in ids and 'grey' otherwise, and after
\* highlightEdge(ids) every edge of the working edge set, also when a filter
\* or resetData has replaced the working sets.
C11_HighlightTagsWorkingSets ==
  /\ (op.name = "highlightVertex" /\ ~op.threw) =>
        \A k \in 1..Len(WorkingVertexes) :
          Has(WorkingVertexes[k], "state") /\ Tagged(WorkingVertexes[k], op.ids)
  /\ (op.name = "highlightEdge" /\ ~op.threw) =>
        \A k \in 1..Len(WorkingEdges) :
          Has(WorkingEdges[k], "state") /\ Tagged(WorkingEdges[k], op.ids)

\* The bound of scaleExtent nearer to a scale outside it.
NearerBound(scale) == IF scale < scaleExtent[1] THEN scaleExtent[1] ELSE scaleExtent[2]
OutOfRange(scale) == scale < scaleExtent[1] \/ scale > scaleExtent[2]

\* C12: zoomTo(scale) with scale outside scaleExtent starts the transform
\* (s, cx - ((cx - x0)/k0)*s, cy - ((cy - y0)/k0)*s) with s the nearer bound;
\* when the current scale is already that bound the call changes nothing;
\* the scale zoomTo produces is within scaleExtent.
C12_ZoomToClamps ==
  [][(op'.name = "zoomTo" /\ OutOfRange(op'.scale)) =>
       LET s  == NearerBound(op'.scale)
           t0 == this.transform
           cx == containerRect.width \div 2
           cy == containerRect.height \div 2
       IN  IF t0.k = s
             THEN this' = this
             ELSE /\ this'.transition.defined
                  /\ this'.transition.target =
                       [k |-> s,
                        x |-> cx - ((cx - t0.x) \div t0.k) * s,
                        y |-> cy - ((cy - t0.y) \div t0.k) * s]
                  /\ this'.transition.target.k \in scaleExtent[1]..scaleExtent[2]
                  /\ this'.transform = t0]_vars

\* zoomTo was asked for a scale above scaleExtent while the current scale
\* was below the upper bound, and the target moves the origin.
C12_Witness ==
  /\ op.name = "zoomTo" /\ op.scale > scaleExtent[2]
  /\ this.transition.defined
  /\ this.transition.target.k = scaleExtent[2]
  /\ this.transition.target.x # 0
  /\ this.transform.k < scaleExtent[2]

\* A provisional edge was released on a drawn vertex other than its source,
\* with a cb given to bindLineWith.
ReleasedOnOther ==
  /\ op.name = "mouseup" /\ op.on \in {"vertex", "rect"}
  /\ op.from # "none" /\ op.from # op.id
  /\ op.given

\* C13: a provisional edge pressed on u and released on another vertex v
\* makes exactly one call cb(u's id, v's id), commits the edge u -> v and
\* clears the provisional edge.
C13_ReleaseOnOtherVertex ==
  ReleasedOnOther =>
    /\ op.cb = <<<<op.from, op.id>>>>
    /\ this.committed # <<>>
    /\ this.committed[Len(this.committed)] = [_from |-> op.from, _to |-> op.id]
    /\ ~this.newLink.defined

\* C14: a provisional edge released on its own source vertex (on the rect
\* or elsewhere on the vertex), on an edge or on the empty canvas is removed
\* with no edge committed and no call of cb; after every release
\* this.newLink is null.
C14_ReleaseElsewhereCancels ==
  [][(op'.name = "mouseup" /\ this.newLink.defined) =>
       /\ ~this'.newLink.defined
       /\ (op'.on \in {"edge", "canvas"} \/ op'.id = op'.from) =>
            (this'.committed = this.committed /\ op'.cb = <<>>)]_vars

\* The ids of the working edges from the vertex `from` to the vertex `to`,
\* in order.
EdgeIdsBetween(from, to) ==
  LET es == SelectSeq(WorkingEdges, LAMBDA e : e._from = from /\ e._to = to)
  IN  [k \in 1..Len(es) |-> es[k]._id]

\* C15: when filterVertex or filterEdge has returned, vertexesMap lists
\* the ids of the working vertices, each once, and adjList[from][to] holds
\* exactly the ids of the working edges from -> to, with no other entry.
C15_IndexMatchesWorkingSets ==
  Returned({"filterVertex", "filterEdge"}) =>
    /\ Len(this.vertexesMap) = Len(WorkingVertexes)
    /\ Range(this.vertexesMap) = WorkingIds
    /\ \A from \in DOMAIN this.adjList : \A to \in DOMAIN this.adjList[from] :
         /\ from \in 0..(Len(this.vertexesMap) - 1)
         /\ to \in 0..(Len(this.vertexesMap) - 1)
         /\ this.adjList[from][to] =
              EdgeIdsBetween(At(this.vertexesMap, from), At(this.vertexesMap, to))
    /\ \A k \in 1..Len(WorkingEdges) :
         LET from == indexOf(this.vertexesMap, WorkingEdges[k]._from)
             to   == indexOf(this.vertexesMap, WorkingEdges[k]._to)
         IN  from \in DOMAIN this.adjList /\ to \in DOMAIN this.adjList[from]

\* The simulators whose timer runs.
Live == {i \in 1..Len(this.simulators) : this.simulators[i].running}

\* C16: layout tears down the simulator built before, so at most one
\* simulator is live at any time.
C16_OneLiveSimulator == Cardinality(Live) <= 1

\* C17: at drag-start the vertex is pinned at its position and the
\* simulator's alphaTarget is raised; the vertex stays pinned during the
\* drag; drag-end unpins it and returns the alphaTarget of the simulator
\* raised at drag-start to 0, also when a relayout came in between.
C17_DragPinLifecycle ==
  /\ (op.name = "dragStart" /\ ~op.threw) =>
       LET d == Deref(this, "vertexes", this.gesture.d)
       IN  /\ ~IsNull(d, "fx") /\ d.fx = Number(d.x)
           /\ ~IsNull(d, "fy") /\ d.fy = Number(d.y)
           /\ this.simulators[this.gesture.simulation].alphaTarget > 0
  /\ this.gesture.defined =>
       LET d == Deref(this, "vertexes", this.gesture.d)
       IN  ~IsNull(d, "fx") /\ ~IsNull(d, "fy")
  /\ op.name = "dragEnd" =>
       LET d == Deref(this, "vertexes", op.d)
       IN  /\ d.fx = Null /\ d.fy = Null
           /\ this.simulators[op.simulation].alphaTarget = 0

\* The edges drawn, as the frame pass reads them.
Drawn == Objects(this, "edges", this.linkEnter.data)
\* A frame pass has run over the drawn edges.
Ticked == op.name = "tick" /\ this.linkEnter.defined /\ Has(op.paths, 1)
\* edgeIndex > middleIndex = (siblingNum + 1) / 2
AboveMiddle(d) == 2 * d.edgeIndex > d.siblingNum + 1

C19_SelfLoopCountPerVertex ==
  Ticked =>
    \A k \in 1..Len(Drawn) :
      Drawn[k]._from = Drawn[k]._to =>
        /\ op.paths[k].count =
             Cardinality({j \in 1..k : /\ Drawn[j]._from = Drawn[k]._from
                                        /\ Drawn[j]._to = Drawn[k]._from})
        /\ op.paths[k].h = 100 * op.paths[k].count
        /\ op.paths[k].w = 10 * op.paths[k].count
====
